---- MODULE Spec2Model ----
(***************************************************************************)
(* jsonnetfmt command-line front end (cmd/jsonnetfmt.cpp): argument        *)
(* processing (process_args) and the run orchestration in main, modelled   *)
(* as a state machine.  Command-line tokens and texts are sequences of     *)
(* one-character strings, so that the string tests of the code (length,    *)
(* first character, equality with a flag) are computed, not assumed.       *)
(***************************************************************************)
EXTENDS Integers, Sequences, FiniteSets, TLC

(* ------------------------------------------------------------------ *)
(* Bounds                                                              *)
(* ------------------------------------------------------------------ *)
\* longest argument vector (argc - 1) explored
MaxArgs == 4
\* longest argument vector explored over the option alphabet
MaxOptArgs == 3

(* ------------------------------------------------------------------ *)
(* Flag spellings compared against in process_args                     *)
(* ------------------------------------------------------------------ *)
F_h == <<"-", "h">>
F_help == <<"-", "-", "h", "e", "l", "p">>
F_v == <<"-", "v">>
F_version == <<"-", "-", "v", "e", "r", "s", "i", "o", "n">>
F_e == <<"-", "e">>
F_exec == <<"-", "-", "e", "x", "e", "c">>
F_o == <<"-", "o">>
F_output_file == <<"-", "-", "o", "u", "t", "p", "u", "t", "-", "f", "i", "l", "e">>
F_dashdash == <<"-", "-">>
F_i == <<"-", "i">>
F_in_place == <<"-", "-", "i", "n", "-", "p", "l", "a", "c", "e">>
F_test == <<"-", "-", "t", "e", "s", "t">>
F_n == <<"-", "n">>
F_indent == <<"-", "-", "i", "n", "d", "e", "n", "t">>
F_max_blank_lines == <<"-", "-", "m", "a", "x", "-", "b", "l", "a", "n", "k", "-", "l", "i", "n", "e", "s">>
F_comment_style == <<"-", "-", "c", "o", "m", "m", "e", "n", "t", "-", "s", "t", "y", "l", "e">>
F_string_style == <<"-", "-", "s", "t", "r", "i", "n", "g", "-", "s", "t", "y", "l", "e">>
F_pad_arrays == <<"-", "-", "p", "a", "d", "-", "a", "r", "r", "a", "y", "s">>
F_no_pad_arrays == <<"-", "-", "n", "o", "-", "p", "a", "d", "-", "a", "r", "r", "a", "y", "s">>
F_pad_objects == <<"-", "-", "p", "a", "d", "-", "o", "b", "j", "e", "c", "t", "s">>
F_no_pad_objects == <<"-", "-", "n", "o", "-", "p", "a", "d", "-", "o", "b", "j", "e", "c", "t", "s">>
F_pretty_field_names == <<"-", "-", "p", "r", "e", "t", "t", "y", "-", "f", "i", "e", "l", "d", "-", "n", "a", "m", "e", "s">>
F_no_pretty_field_names == <<"-", "-", "n", "o", "-", "p", "r", "e", "t", "t", "y", "-", "f", "i", "e", "l", "d", "-", "n", "a", "m", "e", "s">>
F_sort_imports == <<"-", "-", "s", "o", "r", "t", "-", "i", "m", "p", "o", "r", "t", "s">>
F_no_sort_imports == <<"-", "-", "n", "o", "-", "s", "o", "r", "t", "-", "i", "m", "p", "o", "r", "t", "s">>
F_debug_desugaring == <<"-", "-", "d", "e", "b", "u", "g", "-", "d", "e", "s", "u", "g", "a", "r", "i", "n", "g">>

\* the empty string
EMPTY == << >>
\* the stdin sentinel tested at line 240
STDIN_NAME == <<"-">>

(* ------------------------------------------------------------------ *)
(* Program constants                                                   *)
(* ------------------------------------------------------------------ *)
ARG_CONTINUE == "ARG_CONTINUE"
ARG_SUCCESS == "ARG_SUCCESS"
ARG_FAILURE == "ARG_FAILURE"

EXIT_SUCCESS == 0
EXIT_FAILURE == 1
\* the literal returned at line 274
EXIT_DIFFERS == 2

\* engine defaults as documented by usage()
DefaultIndent == 2
DefaultMaxBlankLines == 2

(* ------------------------------------------------------------------ *)
(* Inputs explored                                                     *)
(* ------------------------------------------------------------------ *)
\* two ordinary names; used as inline code, FILE_X needs reformatting
\* (the engine turns it into FILE_Y) and FILE_Y is already canonical
FILE_X == <<"x">>
FILE_Y == <<"y">>
\* a text the engine rejects (syntax error)
BAD_TEXT == <<"!">>
\* a short-option cluster
CLUSTER_ie == <<"-", "i", "e">>

\* raw command-line tokens an argument vector is built from
Alphabet ==
  { F_i, F_e, F_test, F_o, F_h, F_dashdash, STDIN_NAME, FILE_X, FILE_Y,
    CLUSTER_ie }

\* further tokens of the option alphabet
BOGUS == <<"-", "-", "b", "o", "g", "u", "s">>
NUM_3 == <<"3">>
NUM_0 == <<"0">>
NEG_1 == <<"-", "1">>
VAL_h == <<"h">>
VAL_d == <<"d">>
CLUSTER_eh == <<"-", "e", "h">>
CLUSTER_vi == <<"-", "v", "i">>

\* raw command-line tokens of the runs that exercise the options
OptAlphabet ==
  { F_h, F_v, F_o, F_n, F_max_blank_lines, F_comment_style, F_string_style,
    F_pad_arrays, F_no_pad_arrays, F_test, F_i, BOGUS, STDIN_NAME, EMPTY,
    NUM_3, NEG_1, VAL_h, VAL_d, FILE_X, CLUSTER_ie, CLUSTER_eh, CLUSTER_vi }

\* longer argument vectors: repeated options and option batches
OptScenarios ==
  { << F_pad_arrays, F_i, FILE_X, FILE_Y >>,
    << F_n, NUM_3, F_test, FILE_X, FILE_Y >>,
    << F_n, NUM_3, F_n, NUM_0, FILE_X >>,
    << F_o, FILE_X, F_o, FILE_Y, FILE_X >>,
    << F_no_pad_arrays, F_pad_arrays, F_dashdash, F_no_pad_arrays >>,
    << F_comment_style, VAL_h, F_max_blank_lines, NEG_1 >> }

\* texts a file or stdin can hold
Texts == { FILE_X, FILE_Y, BAD_TEXT }

\* disk entry of a path that cannot be opened, and of one not yet looked at
MISSING == "missing"
UNKNOWN == "unknown"

RECURSIVE SeqsUpTo(_, _)
SeqsUpTo(S, n) ==
  IF n = 0 THEN { << >> }
  ELSE LET shorter == SeqsUpTo(S, n - 1)
       IN shorter \cup { Append(s, t) : s \in { q \in shorter : Len(q) = n - 1 }, t \in S }

(* ------------------------------------------------------------------ *)
(* utils.h helpers (declared in utils.h, defined outside src/)         *)
(* ------------------------------------------------------------------ *)
\* one raw argument: a cluster -abc becomes -a -b -c
ExpandArg(arg) ==
  IF Len(arg) > 2 /\ arg[1] = "-" /\ arg[2] # "-"
  THEN [ j \in 1 .. (Len(arg) - 1) |-> <<"-", arg[j + 1]>> ]
  ELSE << arg >>

\* simplify_args: the expansion is made once, over the full argument list
RECURSIVE simplify_args(_)
simplify_args(raw) ==
  IF raw = << >> THEN << >>
  ELSE ExpandArg(Head(raw)) \o simplify_args(Tail(raw))

\* next_arg(i, args) with i counted from 0 as in the code: advances i and
\* yields the token there, the empty string when there is none
next_arg(k, as) ==
  [ i |-> k + 1, val |-> IF k + 1 < Len(as) THEN as[k + 2] ELSE EMPTY ]

Digits == { "0", "1", "2", "3", "4", "5", "6", "7", "8", "9" }
DigitVal(c) ==
  CASE c = "0" -> 0 [] c = "1" -> 1 [] c = "2" -> 2 [] c = "3" -> 3
    [] c = "4" -> 4 [] c = "5" -> 5 [] c = "6" -> 6 [] c = "7" -> 7
    [] c = "8" -> 8 [] c = "9" -> 9

RECURSIVE DecVal(_)
DecVal(ds) ==
  IF ds = << >> THEN 0
  ELSE 10 * DecVal(SubSeq(ds, 1, Len(ds) - 1)) + DigitVal(ds[Len(ds)])

\* strtol_check: a decimal integer with an optional sign, nothing else
strtol_check(str) ==
  LET signed == Len(str) > 0 /\ str[1] \in { "-", "+" }
      ds == IF signed THEN Tail(str) ELSE str
      ok == Len(ds) > 0 /\ \A k \in 1 .. Len(ds) : ds[k] \in Digits
  IN [ ok |-> ok,
       val |-> IF ~ok THEN 0
               ELSE IF signed /\ str[1] = "-" THEN 0 - DecVal(ds) ELSE DecVal(ds) ]

(* ------------------------------------------------------------------ *)
(* The formatting engine (libjsonnet_fmt.h), an opaque collaborator    *)
(* ------------------------------------------------------------------ *)
\* jsonnet_fmt_snippet: error flag and returned text
FmtError(text) == text = BAD_TEXT
FmtOutput(text) ==
  IF text = BAD_TEXT THEN <<"e", "r", "r">>
  ELSE IF text = FILE_X THEN FILE_Y
  ELSE text

InitOpts ==
  [ indent |-> DefaultIndent, max_blank_lines |-> DefaultMaxBlankLines,
    string |-> "s", comment |-> "s", pretty_field_names |-> TRUE,
    pad_arrays |-> FALSE, pad_objects |-> TRUE, sort_imports |-> TRUE,
    debug_desugaring |-> FALSE ]

(* ------------------------------------------------------------------ *)
(* State                                                               *)
(* ------------------------------------------------------------------ *)
VARIABLES
  argv,            \* argv[1..argc-1]
  pc,              \* position of main
  vm,              \* engine handle: "none", "live", "destroyed"
  destroys,        \* number of jsonnet_destroy calls
  useAfterDestroy, \* an engine call was made on a destroyed handle
  opts,            \* option state of the engine
  setterCalls,     \* engine setter calls, in order
  args,            \* process_args: normalized arguments
  i,               \* process_args: loop index, from 0
  remaining_args,  \* process_args: positional arguments
  config,          \* JsonnetConfig
  arg_status,      \* result of process_args, "none" until it returns
  output_file,     \* main: output_file
  idx,             \* main: position of the range-for in inputFiles, from 1
  input,           \* main: input
  output,          \* main: output (text of the buffer)
  error,           \* main: error
  liveBufs,        \* engine buffers returned and not yet released
  disk,            \* file contents
  reads,           \* read_input calls
  fmts,            \* jsonnet_fmt_snippet calls
  writes,          \* write_output_file calls
  outlog,          \* usage / version texts on std::cout
  errlog,          \* diagnostics on std::cerr
  fatalAt,         \* loop position at which the run was ended, 0 if none
  thrown,          \* an exception was raised
  exitStatus       \* value returned by main, -1 while running

vars ==
  << argv, pc, vm, destroys, useAfterDestroy, opts, setterCalls, args, i,
     remaining_args, config, arg_status, output_file, idx, input, output,
     error, liveBufs, disk, reads, fmts, writes, outlog, errlog, fatalAt,
     thrown, exitStatus >>

argVars == << args, i, remaining_args, config, arg_status >>
engineVars == << opts, setterCalls >>
loopVars == << output_file, idx, input, output, error >>
ioVars == << disk, reads, fmts, writes >>
logVars == << outlog, errlog >>

\* every name a run can open: the tokens of the normalized argument list
Paths ==
  UNION { { ExpandArg(t)[k] : k \in 1 .. Len(ExpandArg(t)) } :
          t \in Alphabet \cup OptAlphabet }

JsonnetConfig ==
  [ inputFiles |-> << >>, outputFile |-> EMPTY, filenameIsCode |-> FALSE,
    fmtInPlace |-> FALSE, fmtTest |-> FALSE ]

InitWith(vectors) ==
  /\ argv \in vectors
  /\ pc = "start"
  /\ vm = "none"
  /\ destroys = 0
  /\ useAfterDestroy = FALSE
  /\ opts = InitOpts
  /\ setterCalls = << >>
  /\ args = << >>
  /\ i = 0
  /\ remaining_args = << >>
  /\ config = JsonnetConfig
  /\ arg_status = "none"
  /\ output_file = EMPTY
  /\ idx = 0
  /\ input = EMPTY
  /\ output = EMPTY
  /\ error = FALSE
  /\ liveBufs = 0
  /\ disk = [ p \in Paths |-> UNKNOWN ]
  /\ reads = << >>
  /\ fmts = << >>
  /\ writes = << >>
  /\ outlog = << >>
  /\ errlog = << >>
  /\ fatalAt = 0
  /\ thrown = FALSE
  /\ exitStatus = -1

Init == InitWith(SeqsUpTo(Alphabet, MaxArgs))

\* runs over the option alphabet
InitOpt == InitWith(SeqsUpTo(OptAlphabet, MaxOptArgs) \cup OptScenarios)

(* ------------------------------------------------------------------ *)
(* process_args                                                        *)
(* ------------------------------------------------------------------ *)
Call(fn, num, ch, flag) == [ fn |-> fn, num |-> num, ch |-> ch, flag |-> flag ]
Diag(msg, arg, num) == [ msg |-> msg, arg |-> arg, num |-> num ]

\* the state process_args works on, as one record
ScanState ==
  [ i |-> i, config |-> config, opts |-> opts, calls |-> setterCalls,
    remaining |-> remaining_args, out |-> outlog, err |-> errlog,
    status |-> "none" ]

Fail(s, d) == [ s EXCEPT !.err = Append(@, d), !.status = ARG_FAILURE ]
SetNum(s, field, fn, n) ==
  [ s EXCEPT !.opts[field] = n, !.calls = Append(@, Call(fn, n, "", FALSE)) ]
SetChar(s, field, fn, c) ==
  [ s EXCEPT !.opts[field] = c, !.calls = Append(@, Call(fn, 0, c, FALSE)) ]
\* variant: a boolean option keeps the value of its first token
SetBool_FirstWins(s, field, fn, b) ==
  IF \E k \in 1 .. Len(s.calls) : s.calls[k].fn = fn
    THEN [ s EXCEPT !.calls = Append(@, Call(fn, 0, "", b)) ]
    ELSE [ s EXCEPT !.opts[field] = b, !.calls = Append(@, Call(fn, 0, "", b)) ]
SetBool(s, field, fn, b) ==
  [ s EXCEPT !.opts[field] = b, !.calls = Append(@, Call(fn, 0, "", b)) ]

\* variant: the value of -o is stored but left in place for the scan
ScanOutputFile_NoConsume(s, as) ==
  LET na == next_arg(s.i, as)
  IN IF Len(na.val) = 0
     THEN Fail(s, Diag("-o argument was empty string", EMPTY, 0))
     ELSE [ s EXCEPT !.config.outputFile = na.val ]

\* -o / --output-file
ScanOutputFile(s, as) ==
  LET na == next_arg(s.i, as)
  IN IF Len(na.val) = 0
     THEN Fail([ s EXCEPT !.i = na.i ], Diag("-o argument was empty string", EMPTY, 0))
     ELSE [ s EXCEPT !.i = na.i, !.config.outputFile = na.val ]

\* variant: a negative number is forwarded like any other
ScanNumber_NoSignCheck(s, as, field, fn, msg) ==
  LET na == next_arg(s.i, as)
      l == strtol_check(na.val)
  IN IF ~l.ok
     THEN Fail([ s EXCEPT !.i = na.i ], Diag("invalid integer", na.val, 0))
     ELSE SetNum([ s EXCEPT !.i = na.i ], field, fn, l.val)

\* -n / --indent and --max-blank-lines
ScanNumber(s, as, field, fn, msg) ==
  LET na == next_arg(s.i, as)
      l == strtol_check(na.val)
  IN IF ~l.ok
     THEN Fail([ s EXCEPT !.i = na.i ], Diag("invalid integer", na.val, 0))
     ELSE IF l.val < 0
     THEN Fail([ s EXCEPT !.i = na.i ], Diag(msg, EMPTY, l.val))
     ELSE SetNum([ s EXCEPT !.i = na.i ], field, fn, l.val)

\* --comment-style and --string-style
ScanStyle(s, as, field, fn, allowed, msg) ==
  LET na == next_arg(s.i, as)
  IN IF Len(na.val) = 1 /\ na.val[1] \in allowed
     THEN SetChar([ s EXCEPT !.i = na.i ], field, fn, na.val[1])
     ELSE Fail([ s EXCEPT !.i = na.i ], Diag(msg, na.val, 0))

\* variant: no token is reported as unrecognized
Unrecognized_Never(arg) == FALSE

\* the token is an unrecognized flag
Unrecognized(arg) == Len(arg) > 1 /\ arg[1] = "-"

\* body of the for loop for the token at s.i, without the ++i
ScanToken(s, as) ==
  LET arg == as[s.i + 1]
  IN IF arg = F_h \/ arg = F_help
       THEN [ s EXCEPT !.out = Append(@, "usage"), !.status = ARG_SUCCESS ]
     ELSE IF arg = F_v \/ arg = F_version
       THEN [ s EXCEPT !.out = Append(@, "version"), !.status = ARG_SUCCESS ]
     ELSE IF arg = F_e \/ arg = F_exec
       THEN [ s EXCEPT !.config.filenameIsCode = TRUE ]
     ELSE IF arg = F_o \/ arg = F_output_file
       THEN ScanOutputFile(s, as)
     ELSE IF arg = F_dashdash
       THEN [ s EXCEPT !.remaining = @ \o SubSeq(as, s.i + 2, Len(as)),
                       !.i = Len(as),
                       !.status = "break" ]
     ELSE IF arg = F_i \/ arg = F_in_place
       THEN [ s EXCEPT !.config.fmtInPlace = TRUE ]
     ELSE IF arg = F_test
       THEN [ s EXCEPT !.config.fmtTest = TRUE ]
     ELSE IF arg = F_n \/ arg = F_indent
       THEN ScanNumber(s, as, "indent", "jsonnet_fmt_indent", "invalid --indent value")
     ELSE IF arg = F_max_blank_lines
       THEN ScanNumber(s, as, "max_blank_lines", "jsonnet_fmt_max_blank_lines",
                       "invalid --max-blank-lines value")
     ELSE IF arg = F_comment_style
       THEN ScanStyle(s, as, "comment", "jsonnet_fmt_comment", { "h", "s", "l" },
                      "invalid --comment-style value")
     ELSE IF arg = F_string_style
       THEN ScanStyle(s, as, "string", "jsonnet_fmt_string", { "d", "s", "l" },
                      "invalid --string-style value")
     ELSE IF arg = F_pad_arrays
       THEN SetBool(s, "pad_arrays", "jsonnet_fmt_pad_arrays", TRUE)
     ELSE IF arg = F_no_pad_arrays
       THEN SetBool(s, "pad_arrays", "jsonnet_fmt_pad_arrays", FALSE)
     ELSE IF arg = F_pad_objects
       THEN SetBool(s, "pad_objects", "jsonnet_fmt_pad_objects", TRUE)
     ELSE IF arg = F_no_pad_objects
       THEN SetBool(s, "pad_objects", "jsonnet_fmt_pad_objects", FALSE)
     ELSE IF arg = F_pretty_field_names
       THEN SetBool(s, "pretty_field_names", "jsonnet_fmt_pretty_field_names", TRUE)
     ELSE IF arg = F_no_pretty_field_names
       THEN SetBool(s, "pretty_field_names", "jsonnet_fmt_pretty_field_names", FALSE)
     ELSE IF arg = F_sort_imports
       THEN SetBool(s, "sort_imports", "jsonnet_fmt_sort_imports", TRUE)
     ELSE IF arg = F_no_sort_imports
       THEN SetBool(s, "sort_imports", "jsonnet_fmt_sort_imports", FALSE)
     ELSE IF arg = F_debug_desugaring
       THEN SetBool(s, "debug_desugaring", "jsonnet_fmt_debug_desugaring", TRUE)
     ELSE IF Unrecognized(arg)
       THEN Fail(s, Diag("unrecognized argument", arg, 0))
     ELSE [ s EXCEPT !.remaining = Append(@, arg) ]

\* variant: the count of positional arguments is never checked
TooManyInputs_Never(cfg, rem) == FALSE

\* more than one positional argument outside in-place and test mode
TooManyInputs(cfg, rem) == ~cfg.fmtTest /\ ~cfg.fmtInPlace /\ Len(rem) > 1

\* variant: the arguments are scanned as given
NormalizedArgs_Raw(raw) == raw

\* the argument list the scan works on, line 102
NormalizedArgs(raw) == simplify_args(raw)

\* the loop of lines 107-198 run to its end from scan state s
RECURSIVE ScanAll(_, _)
ScanAll(s, as) ==
  IF s.i >= Len(as) THEN s
  ELSE LET t == ScanToken(s, as)
       IN IF t.status \in { ARG_SUCCESS, ARG_FAILURE } THEN t
          ELSE ScanAll([ t EXCEPT !.i = IF t.status = "break" THEN t.i ELSE t.i + 1,
                                  !.status = "none" ], as)

\* lines 200-215 on the scan state the loop left
PostScan(s) ==
  IF s.status # "none" THEN s
  ELSE IF Len(s.remaining) = 0 THEN Fail(s, Diag("must give", EMPTY, 0))
  ELSE IF TooManyInputs(s.config, s.remaining)
    THEN Fail(s, Diag("only one is allowed", EMPTY, 0))
  ELSE [ s EXCEPT !.config.inputFiles = s.remaining, !.status = ARG_CONTINUE ]

\* process_args as a function of the raw argument vector
process_args(raw) ==
  PostScan(ScanAll([ i |-> 0, config |-> JsonnetConfig, opts |-> InitOpts,
                     calls |-> << >>, remaining |-> << >>, out |-> << >>,
                     err |-> << >>, status |-> "none" ],
                   NormalizedArgs(raw)))

\* an engine call on the handle
EngineUse == useAfterDestroy' = (useAfterDestroy \/ vm # "live")

\* main, lines 221-223, and process_args, lines 102-105
Start ==
  /\ pc = "start"
  /\ vm' = "live"
  /\ args' = NormalizedArgs(argv)
  /\ i' = 0
  /\ remaining_args' = << >>
  /\ pc' = "scan"
  /\ UNCHANGED << argv, destroys, useAfterDestroy, config, arg_status >>
  /\ UNCHANGED << engineVars, loopVars, ioVars, logVars, liveBufs, fatalAt, thrown, exitStatus >>

\* variant: -h / -v print their text but the scan goes on
ScanArg_HelpContinues ==
  /\ pc = "scan"
  /\ i < Len(args)
  /\ LET s == ScanToken(ScanState, args)
         returns == s.status = ARG_FAILURE
     IN /\ config' = s.config
        /\ opts' = s.opts
        /\ setterCalls' = s.calls
        /\ remaining_args' = s.remaining
        /\ outlog' = s.out
        /\ errlog' = s.err
        /\ i' = IF returns \/ s.status = "break" THEN s.i ELSE s.i + 1
        /\ arg_status' = IF returns THEN s.status ELSE arg_status
        /\ pc' = IF returns THEN "args_done" ELSE "scan"
        /\ IF Len(s.calls) > Len(setterCalls) THEN EngineUse ELSE UNCHANGED useAfterDestroy
  /\ UNCHANGED << argv, vm, destroys, args >>
  /\ UNCHANGED << loopVars, ioVars, liveBufs, fatalAt, thrown, exitStatus >>

\* one iteration of the for loop of process_args, lines 107-198
ScanArg ==
  /\ pc = "scan"
  /\ i < Len(args)
  /\ LET s == ScanToken(ScanState, args)
         returns == s.status \in { ARG_SUCCESS, ARG_FAILURE }
     IN /\ config' = s.config
        /\ opts' = s.opts
        /\ setterCalls' = s.calls
        /\ remaining_args' = s.remaining
        /\ outlog' = s.out
        /\ errlog' = s.err
        /\ i' = IF returns \/ s.status = "break" THEN s.i ELSE s.i + 1
        /\ arg_status' = IF returns THEN s.status ELSE arg_status
        /\ pc' = IF returns THEN "args_done" ELSE "scan"
        /\ IF Len(s.calls) > Len(setterCalls) THEN EngineUse ELSE UNCHANGED useAfterDestroy
  /\ UNCHANGED << argv, vm, destroys, args >>
  /\ UNCHANGED << loopVars, ioVars, liveBufs, fatalAt, thrown, exitStatus >>

\* process_args after the loop, lines 200-215
FinishArgs ==
  /\ pc = "scan"
  /\ i >= Len(args)
  /\ IF Len(remaining_args) = 0
       THEN /\ errlog' = Append(errlog, Diag("must give", EMPTY, 0))
            /\ arg_status' = ARG_FAILURE
            /\ UNCHANGED config
     ELSE IF TooManyInputs(config, remaining_args)
       THEN /\ errlog' = Append(errlog, Diag("only one is allowed", EMPTY, 0))
            /\ arg_status' = ARG_FAILURE
            /\ UNCHANGED config
     ELSE /\ config' = [ config EXCEPT !.inputFiles = remaining_args ]
          /\ arg_status' = ARG_CONTINUE
          /\ UNCHANGED errlog
  /\ pc' = "args_done"
  /\ UNCHANGED << argv, vm, destroys, useAfterDestroy, args, i, remaining_args, outlog >>
  /\ UNCHANGED << engineVars, loopVars, ioVars, liveBufs, fatalAt, thrown, exitStatus >>

(* ------------------------------------------------------------------ *)
(* main                                                                *)
(* ------------------------------------------------------------------ *)
\* jsonnet_destroy(vm)
Destroy ==
  /\ vm' = "destroyed"
  /\ destroys' = destroys + 1
  /\ EngineUse

\* return from main
Return(code) ==
  /\ pc' = "done"
  /\ exitStatus' = code

\* jsonnet_realloc(vm, output, 0)
ReleaseBuf == liveBufs' = liveBufs - 1

\* variant: the stdin sentinel is not refused
RejectStdin_Never(inputFile) == FALSE

\* in-place mode refuses the stdin sentinel, line 240
RejectStdin(inputFile) == inputFile = STDIN_NAME

\* variants: the comparison of test mode always / never succeeds
TestOk_Always(out, in) == TRUE
TestOk_Never(out, in) == FALSE

\* the comparison of test mode, line 270
TestOk(out, in) == out = in

\* variant: in-place mode writes whether or not the text changed
Different_Always(out, in) == TRUE

\* the comparison of in-place mode, line 278
Different(out, in) == out # in

\* variant: --in-place takes precedence over --test
UseTestBranch_InPlaceFirst(cfg) == cfg.fmtTest /\ ~cfg.fmtInPlace

\* the branch taken at line 268
UseTestBranch(cfg) == cfg.fmtTest

\* read_input: inline code, stdin, or a file that may fail to open
ReadResults(isCode, name) ==
  IF isCode THEN { [ ok |-> TRUE, text |-> name ] }
  ELSE IF name = STDIN_NAME THEN { [ ok |-> TRUE, text |-> t ] : t \in Texts }
  ELSE IF disk[name] = UNKNOWN
    THEN { [ ok |-> TRUE, text |-> t ] : t \in Texts } \cup { [ ok |-> FALSE, text |-> EMPTY ] }
  ELSE IF disk[name] = MISSING THEN { [ ok |-> FALSE, text |-> EMPTY ] }
  ELSE { [ ok |-> TRUE, text |-> disk[name] ] }

\* what a read learns about the disk
DiskAfterRead(isCode, name, r) ==
  IF isCode \/ name = STDIN_NAME THEN disk
  ELSE [ disk EXCEPT ![name] = IF r.ok THEN r.text ELSE MISSING ]

\* write_output_file(output, output_file): stdout when the name is empty
WriteOutcomes(target) == IF target = EMPTY THEN { TRUE } ELSE BOOLEAN

DiskAfterWrite(target, text, ok) ==
  IF target = EMPTY \/ ~ok THEN disk ELSE [ disk EXCEPT ![target] = text ]

ReadRec(pos, name, ok) == [ pos |-> pos, name |-> name, ok |-> ok ]
FmtRec(pos, name, in, out, err) ==
  [ pos |-> pos, name |-> name, input |-> in, output |-> out, error |-> err ]
WriteRec(pos, target, text, ok) ==
  [ pos |-> pos, target |-> target, text |-> text, ok |-> ok ]

\* variant: without -o the output goes back to the input file
MainOutputFile_DefaultsToInput(cfg) ==
  IF cfg.outputFile = EMPTY THEN cfg.inputFiles[1] ELSE cfg.outputFile

\* the initial output_file of main, line 232
MainOutputFile(cfg) == cfg.outputFile

\* variant: the loop keeps the output_file it was given
LoopOutputFile_Keep(cfg, inputFile, current) == current

\* output_file for one entry of the loop, lines 237-238
LoopOutputFile(cfg, inputFile, current) ==
  IF cfg.fmtInPlace THEN inputFile ELSE current

\* lines 224-232
AfterArgs ==
  /\ pc = "args_done"
  /\ IF arg_status # ARG_CONTINUE
       THEN /\ Destroy
            /\ Return(IF arg_status = ARG_SUCCESS THEN EXIT_SUCCESS ELSE EXIT_FAILURE)
            /\ UNCHANGED << output_file, idx >>
       ELSE /\ output_file' = MainOutputFile(config)
            /\ IF config.fmtInPlace \/ config.fmtTest
                 THEN pc' = "loop" /\ idx' = 1
                 ELSE pc' = "single" /\ UNCHANGED idx
            /\ UNCHANGED << vm, destroys, useAfterDestroy, exitStatus >>
  /\ UNCHANGED << argv, argVars, engineVars, input, output, error, ioVars, logVars >>
  /\ UNCHANGED << liveBufs, fatalAt, thrown >>

\* head of the range-for and the in-place checks, lines 236-251
LoopHead ==
  /\ pc = "loop"
  /\ IF idx > Len(config.inputFiles)
       THEN /\ pc' = "finish"
            /\ UNCHANGED << vm, destroys, useAfterDestroy, output_file, errlog, fatalAt, exitStatus >>
       ELSE LET inputFile == config.inputFiles[idx]
            IN /\ output_file' = LoopOutputFile(config, inputFile, output_file)
               /\ IF config.fmtInPlace /\ RejectStdin(inputFile)
                    THEN /\ errlog' = Append(errlog, Diag("cannot use --in-place with stdin", EMPTY, 0))
                         /\ Destroy
                         /\ Return(EXIT_FAILURE)
                         /\ fatalAt' = idx
                  ELSE IF config.fmtInPlace /\ config.filenameIsCode
                    THEN /\ errlog' = Append(errlog, Diag("cannot use --in-place with --exec", EMPTY, 0))
                         /\ Destroy
                         /\ Return(EXIT_FAILURE)
                         /\ fatalAt' = idx
                  ELSE /\ pc' = "read"
                       /\ UNCHANGED << vm, destroys, useAfterDestroy, errlog, fatalAt, exitStatus >>
  /\ UNCHANGED << argv, argVars, engineVars, idx, input, output, error, ioVars, outlog >>
  /\ UNCHANGED << liveBufs, thrown >>

\* lines 253-257
LoopRead ==
  /\ pc = "read"
  /\ LET inputFile == config.inputFiles[idx]
     IN \E r \in ReadResults(config.filenameIsCode, inputFile) :
          /\ reads' = Append(reads, ReadRec(idx, inputFile, r.ok))
          /\ disk' = DiskAfterRead(config.filenameIsCode, inputFile, r)
          /\ IF ~r.ok
               THEN /\ Destroy
                    /\ Return(EXIT_FAILURE)
                    /\ fatalAt' = idx
                    /\ UNCHANGED input
               ELSE /\ input' = r.text
                    /\ pc' = "format"
                    /\ UNCHANGED << vm, destroys, useAfterDestroy, fatalAt, exitStatus >>
  /\ UNCHANGED << argv, argVars, engineVars, output_file, idx, output, error >>
  /\ UNCHANGED << fmts, writes, logVars, liveBufs, thrown >>

\* variant: the loop sets the indent again before each formatting call
LoopFormat_SetsIndent ==
  /\ pc = "format"
  /\ opts' = [ opts EXCEPT !.indent = DefaultIndent ]
  /\ setterCalls' = Append(setterCalls, Call("jsonnet_fmt_indent", DefaultIndent, "", FALSE))
  /\ output' = FmtOutput(input)
  /\ error' = FmtError(input)
  /\ fmts' = Append(fmts, FmtRec(idx, config.inputFiles[idx], input, FmtOutput(input), FmtError(input)))
  /\ liveBufs' = liveBufs + 1
  /\ EngineUse
  /\ pc' = "formatted"
  /\ UNCHANGED << argv, argVars, vm, destroys, output_file, idx, input >>
  /\ UNCHANGED << disk, reads, writes, logVars, fatalAt, thrown, exitStatus >>

\* line 259
LoopFormat ==
  /\ pc = "format"
  /\ output' = FmtOutput(input)
  /\ error' = FmtError(input)
  /\ fmts' = Append(fmts, FmtRec(idx, config.inputFiles[idx], input, FmtOutput(input), FmtError(input)))
  /\ liveBufs' = liveBufs + 1
  /\ EngineUse
  /\ pc' = "formatted"
  /\ UNCHANGED << argv, argVars, engineVars, vm, destroys, output_file, idx, input >>
  /\ UNCHANGED << disk, reads, writes, logVars, fatalAt, thrown, exitStatus >>

\* variant: an engine error skips the file instead of ending the run
LoopError_Continue ==
  /\ pc = "formatted"
  /\ error
  /\ errlog' = Append(errlog, Diag("engine error", output, 0))
  /\ ReleaseBuf
  /\ useAfterDestroy' = (useAfterDestroy \/ vm # "live")
  /\ idx' = idx + 1
  /\ pc' = "loop"
  /\ UNCHANGED << argv, argVars, engineVars, output_file, input, output, error >>
  /\ UNCHANGED << ioVars, outlog, thrown, vm, destroys, fatalAt, exitStatus >>

\* lines 261-266
LoopError ==
  /\ pc = "formatted"
  /\ error
  /\ errlog' = Append(errlog, Diag("engine error", output, 0))
  /\ ReleaseBuf
  /\ Destroy
  /\ Return(EXIT_FAILURE)
  /\ fatalAt' = idx
  /\ UNCHANGED << argv, argVars, engineVars, loopVars, ioVars, outlog, thrown >>

\* lines 268-275
LoopTest ==
  /\ pc = "formatted"
  /\ ~error
  /\ UseTestBranch(config)
  /\ ReleaseBuf
  /\ IF ~TestOk(output, input)
       THEN /\ Destroy
            /\ Return(EXIT_DIFFERS)
            /\ fatalAt' = idx
            /\ UNCHANGED idx
       ELSE /\ idx' = idx + 1
            /\ pc' = "loop"
            /\ useAfterDestroy' = (useAfterDestroy \/ vm # "live")
            /\ UNCHANGED << vm, destroys, fatalAt, exitStatus >>
  /\ UNCHANGED << argv, argVars, engineVars, output_file, input, output, error >>
  /\ UNCHANGED << ioVars, logVars, thrown >>

\* lines 276-287
LoopInPlace ==
  /\ pc = "formatted"
  /\ ~error
  /\ ~UseTestBranch(config)
  /\ IF Different(output, input)
       THEN \E successful \in WriteOutcomes(output_file) :
              /\ writes' = Append(writes, WriteRec(idx, output_file, output, successful))
              /\ disk' = DiskAfterWrite(output_file, output, successful)
              /\ ReleaseBuf
              /\ IF ~successful
                   THEN /\ Destroy
                        /\ Return(EXIT_FAILURE)
                        /\ fatalAt' = idx
                        /\ UNCHANGED idx
                   ELSE /\ idx' = idx + 1
                        /\ pc' = "loop"
                        /\ useAfterDestroy' = (useAfterDestroy \/ vm # "live")
                        /\ UNCHANGED << vm, destroys, fatalAt, exitStatus >>
       ELSE /\ idx' = idx + 1
            /\ pc' = "loop"
            /\ UNCHANGED << writes, disk, liveBufs, vm, destroys, useAfterDestroy, fatalAt, exitStatus >>
  /\ UNCHANGED << argv, argVars, engineVars, output_file, input, output, error >>
  /\ UNCHANGED << reads, fmts, logVars, thrown >>

\* lines 290-296
SingleRead ==
  /\ pc = "single"
  /\ LET inputFile == config.inputFiles[1]
     IN \E r \in ReadResults(config.filenameIsCode, inputFile) :
          /\ reads' = Append(reads, ReadRec(1, inputFile, r.ok))
          /\ disk' = DiskAfterRead(config.filenameIsCode, inputFile, r)
          /\ IF ~r.ok
               THEN /\ Destroy
                    /\ Return(EXIT_FAILURE)
                    /\ UNCHANGED input
               ELSE /\ input' = r.text
                    /\ pc' = "single_format"
                    /\ UNCHANGED << vm, destroys, useAfterDestroy, exitStatus >>
  /\ UNCHANGED << argv, argVars, engineVars, output_file, idx, output, error >>
  /\ UNCHANGED << fmts, writes, logVars, liveBufs, fatalAt, thrown >>

\* lines 298-299
SingleFormat ==
  /\ pc = "single_format"
  /\ output' = FmtOutput(input)
  /\ error' = FmtError(input)
  /\ fmts' = Append(fmts, FmtRec(1, config.inputFiles[1], input, FmtOutput(input), FmtError(input)))
  /\ liveBufs' = liveBufs + 1
  /\ EngineUse
  /\ pc' = "single_formatted"
  /\ UNCHANGED << argv, argVars, engineVars, vm, destroys, output_file, idx, input >>
  /\ UNCHANGED << disk, reads, writes, logVars, fatalAt, thrown, exitStatus >>

\* lines 301-306
SingleError ==
  /\ pc = "single_formatted"
  /\ error
  /\ errlog' = Append(errlog, Diag("engine error", output, 0))
  /\ ReleaseBuf
  /\ Destroy
  /\ Return(EXIT_FAILURE)
  /\ UNCHANGED << argv, argVars, engineVars, loopVars, ioVars, outlog, fatalAt, thrown >>

\* lines 308-315
SingleWrite ==
  /\ pc = "single_formatted"
  /\ ~error
  /\ \E successful \in WriteOutcomes(output_file) :
       /\ writes' = Append(writes, WriteRec(1, output_file, output, successful))
       /\ disk' = DiskAfterWrite(output_file, output, successful)
       /\ ReleaseBuf
       /\ IF ~successful
            THEN /\ Destroy
                 /\ Return(EXIT_FAILURE)
            ELSE /\ pc' = "finish"
                 /\ useAfterDestroy' = (useAfterDestroy \/ vm # "live")
                 /\ UNCHANGED << vm, destroys, exitStatus >>
  /\ UNCHANGED << argv, argVars, engineVars, loopVars, reads, fmts, logVars, fatalAt, thrown >>

\* lines 317-318
Finish ==
  /\ pc = "finish"
  /\ Destroy
  /\ Return(EXIT_SUCCESS)
  /\ UNCHANGED << argv, argVars, engineVars, loopVars, ioVars, logVars >>
  /\ UNCHANGED << liveBufs, fatalAt, thrown >>

\* positions inside the try block, after the handle exists
Running ==
  { "scan", "args_done", "loop", "read", "format", "formatted",
    "single", "single_format", "single_formatted", "finish" }

\* an exception (std::bad_alloc or another) leaves the try block
Throw ==
  /\ pc \in Running
  /\ thrown' = TRUE
  /\ pc' = "caught"
  /\ UNCHANGED << argv, argVars, engineVars, loopVars, ioVars, logVars >>
  /\ UNCHANGED << vm, destroys, useAfterDestroy, liveBufs, fatalAt, exitStatus >>

\* variant: the handlers report the fault and return success
Catch_ReturnsSuccess ==
  /\ pc = "caught"
  /\ errlog' = Append(errlog, Diag("internal error", EMPTY, 0))
  /\ Return(EXIT_SUCCESS)
  /\ UNCHANGED << argv, argVars, engineVars, loopVars, ioVars, outlog >>
  /\ UNCHANGED << vm, destroys, useAfterDestroy, liveBufs, fatalAt, thrown >>

\* the handlers, lines 320-328
Catch ==
  /\ pc = "caught"
  /\ errlog' = Append(errlog, Diag("internal error", EMPTY, 0))
  /\ Return(EXIT_FAILURE)
  /\ UNCHANGED << argv, argVars, engineVars, loopVars, ioVars, outlog >>
  /\ UNCHANGED << vm, destroys, useAfterDestroy, liveBufs, fatalAt, thrown >>

Next ==
  \/ Start
  \/ ScanArg
  \/ FinishArgs
  \/ AfterArgs
  \/ LoopHead
  \/ LoopRead
  \/ LoopFormat
  \/ LoopError
  \/ LoopTest
  \/ LoopInPlace
  \/ SingleRead
  \/ SingleFormat
  \/ SingleError
  \/ SingleWrite
  \/ Finish
  \/ Throw
  \/ Catch

Spec == Init /\ [][Next]_vars

SpecOpt == InitOpt /\ [][Next]_vars

(* ------------------------------------------------------------------ *)
(* Properties                                                          *)
(* ------------------------------------------------------------------ *)
NoIO == reads = << >> /\ fmts = << >> /\ writes = << >>

InLoopMode == arg_status = ARG_CONTINUE /\ (config.fmtInPlace \/ config.fmtTest)

HasStdinEntry(files) == \E k \in 1 .. Len(files) : files[k] = STDIN_NAME

FirstStdin(files) ==
  CHOOSE k \in 1 .. Len(files) :
    files[k] = STDIN_NAME /\ \A j \in 1 .. (k - 1) : files[j] # STDIN_NAME

\* no rejection, read error, engine error or exception has happened
NoErrorSeen ==
  /\ ~thrown
  /\ errlog = << >>
  /\ \A k \in 1 .. Len(reads) : reads[k].ok

AllMatch ==
  /\ Len(fmts) = Len(config.inputFiles)
  /\ \A k \in 1 .. Len(fmts) : fmts[k].output = fmts[k].input

SomeDiffers == \E k \in 1 .. Len(fmts) : fmts[k].output # fmts[k].input

WritesAt(p) == { k \in 1 .. Len(writes) : writes[k].pos = p }

\* the write decision for a formatted input has been taken
Decided(f) == f.pos < idx \/ fatalAt = f.pos

\* text of the last successful write to a target
LastWritten(target) ==
  LET ks == { k \in 1 .. Len(writes) : writes[k].target = target /\ writes[k].ok }
      last == CHOOSE k \in ks : \A j \in ks : j <= k
  IN writes[last].text

\* C1: on every path by which main terminates the engine handle made by
\* jsonnet_make has been released by jsonnet_destroy exactly once, never
\* twice, and it is never used after its release.
C1_HandleReleasedOnce ==
  /\ destroys <= 1
  /\ ~useAfterDestroy
  /\ (pc = "done" => destroys = 1)

\* C2: every buffer returned by jsonnet_fmt_snippet has been released, exactly
\* once, before the next formatting call and before the process exits; stated
\* here for the runs in which no exception is raised.
C2_BuffersReleased ==
  ~thrown =>
    /\ liveBufs \in { 0, 1 }
    /\ (pc \in { "format", "single_format", "done" } => liveBufs = 0)

\* C3 as stated, for accepted argument lists: with --in-place and either
\* --exec or a `-` entry at any position of the input list, nothing is read,
\* formatted or written and the exit status is 1.
C3_Original ==
  ( /\ arg_status = ARG_CONTINUE
    /\ config.fmtInPlace
    /\ (config.filenameIsCode \/ HasStdinEntry(config.inputFiles)) )
  => /\ NoIO
     /\ (pc = "done" => exitStatus = EXIT_FAILURE)

\* C3 (amended): when the arguments are accepted with --in-place and either
\* --exec is set or the first input entry is `-`, nothing is read, formatted
\* or written and the exit status is 1; a `-` at a later position is refused
\* only when the loop reaches it, so only entries before it are read,
\* formatted or written, and the exit status is 1 or 2, never 0.
C3_Amended ==
  (arg_status = ARG_CONTINUE /\ config.fmtInPlace) =>
    /\ (config.filenameIsCode \/ config.inputFiles[1] = STDIN_NAME)
         => /\ NoIO
            /\ (pc = "done" => exitStatus = EXIT_FAILURE)
    /\ HasStdinEntry(config.inputFiles)
         => LET k == FirstStdin(config.inputFiles)
            IN /\ \A r \in 1 .. Len(reads) : reads[r].pos < k
               /\ \A f \in 1 .. Len(fmts) : fmts[f].pos < k
               /\ \A w \in 1 .. Len(writes) : writes[w].pos < k
               /\ (pc = "done" => exitStatus \in { EXIT_FAILURE, EXIT_DIFFERS })

C3_Witness ==
  /\ pc = "done"
  /\ arg_status = ARG_CONTINUE
  /\ config.fmtInPlace
  /\ Len(config.inputFiles) >= 2
  /\ config.inputFiles[1] = STDIN_NAME
  /\ fatalAt = 1
  /\ exitStatus = EXIT_FAILURE
  /\ NoIO

\* C4: in test mode, when every processed input was read and formatted
\* without error, the exit status is 0 exactly when every input was formatted
\* to itself, and it is 2, never 1, when some input differs.
C4_TestExitStatus ==
  (pc = "done" /\ arg_status = ARG_CONTINUE /\ config.fmtTest /\ NoErrorSeen) =>
    /\ (exitStatus = EXIT_SUCCESS <=> AllMatch)
    /\ (SomeDiffers => exitStatus = EXIT_DIFFERS)
    /\ exitStatus # EXIT_FAILURE

C4_Witness ==
  /\ pc = "done"
  /\ arg_status = ARG_CONTINUE
  /\ config.fmtTest
  /\ NoErrorSeen
  /\ Len(config.inputFiles) = 3
  /\ Len(fmts) = 2
  /\ fmts[1].output = fmts[1].input
  /\ fmts[2].output # fmts[2].input
  /\ exitStatus = EXIT_DIFFERS

\* C5: in in-place mode without --test, for every input read and formatted
\* successfully a write to that file is issued if and only if the output
\* differs from the content read; when they are equal the file keeps its
\* content.
C5_InPlaceWriteIffDifferent ==
  (arg_status = ARG_CONTINUE /\ config.fmtInPlace /\ ~config.fmtTest) =>
    \A k \in 1 .. Len(fmts) :
      LET f == fmts[k]
      IN (~f.error /\ Decided(f)) =>
           /\ (WritesAt(f.pos) # { } <=> f.output # f.input)
           /\ Cardinality(WritesAt(f.pos)) <= 1
           /\ \A w \in WritesAt(f.pos) :
                writes[w].target = f.name /\ writes[w].text = f.output
           /\ (f.output = f.input => disk[f.name] = f.input)

C5_Witness ==
  /\ pc = "done"
  /\ exitStatus = EXIT_SUCCESS
  /\ config.fmtInPlace
  /\ ~config.fmtTest
  /\ Len(fmts) = 2
  /\ fmts[1].output = fmts[1].input
  /\ fmts[2].output # fmts[2].input
  /\ Len(writes) = 1
  /\ writes[1].pos = 2

\* C6: whenever --test is set no write_output_file call is made, to a file or
\* to standard output, also when --in-place or -o is given with it.
C6_TestWritesNothing == config.fmtTest => writes = << >>

C6_Witness ==
  /\ pc = "done"
  /\ config.fmtTest
  /\ config.fmtInPlace
  /\ SomeDiffers
  /\ ~thrown
  /\ exitStatus = EXIT_DIFFERS
  /\ writes = << >>

\* C7: the exit status is 0, 1 or 2, and it is 2 only when --test is set and
\* the last input was read and formatted successfully into a different text;
\* no failure of another kind and no run without --test yields 2.
C7_ExitStatus ==
  /\ (pc = "done" => exitStatus \in { EXIT_SUCCESS, EXIT_FAILURE, EXIT_DIFFERS })
  /\ (pc # "done" => exitStatus = -1)
  /\ exitStatus = EXIT_DIFFERS =>
       /\ config.fmtTest
       /\ arg_status = ARG_CONTINUE
       /\ ~thrown
       /\ writes = << >>
       /\ Len(fmts) > 0
       /\ Len(reads) = Len(fmts)
       /\ reads[Len(reads)].ok
       /\ ~fmts[Len(fmts)].error
       /\ fmts[Len(fmts)].output # fmts[Len(fmts)].input

C7_Witness ==
  /\ pc = "done"
  /\ exitStatus = EXIT_DIFFERS
  /\ ~config.fmtInPlace
  /\ Len(fmts) = 1

\* a fatal condition is on record for the k-th input
FatalSeenAt(k) ==
  \/ k <= Len(reads) /\ ~reads[k].ok
  \/ k <= Len(fmts) /\ fmts[k].error
  \/ k <= Len(fmts) /\ config.fmtTest /\ fmts[k].output # fmts[k].input
  \/ \E w \in WritesAt(k) : ~writes[w].ok
  \/ fatalAt = k

\* C8: in in-place or test mode the inputs are read and formatted in the
\* order given, each at most once; once a fatal condition is on record for
\* the k-th input nothing after the k-th is read, formatted or written, and
\* every file written keeps the text last written to it.
C8_OrderedAbortAtFirstFatal ==
  InLoopMode =>
    /\ \A k \in 1 .. Len(reads) :
         reads[k].pos = k /\ reads[k].name = config.inputFiles[k]
    /\ \A k \in 1 .. Len(fmts) : fmts[k].pos = k
    /\ Len(fmts) <= Len(reads)
    /\ Len(reads) <= Len(config.inputFiles)
    /\ \A a, b \in 1 .. Len(writes) : a < b => writes[a].pos < writes[b].pos
    /\ \A w \in 1 .. Len(writes) : writes[w].pos <= Len(fmts)
    /\ \A k \in 1 .. Len(config.inputFiles) :
         FatalSeenAt(k) =>
           /\ idx = k
           /\ pc \in { "formatted", "caught", "done" }
           /\ Len(reads) <= k
           /\ Len(fmts) <= k
           /\ \A w \in 1 .. Len(writes) : writes[w].pos <= k
    /\ \A w \in 1 .. Len(writes) :
         writes[w].ok => disk[writes[w].target] = LastWritten(writes[w].target)

C8_Witness ==
  /\ pc = "done"
  /\ InLoopMode
  /\ Len(config.inputFiles) = 3
  /\ fatalAt = 2
  /\ Len(reads) = 2
  /\ Len(writes) = 1
  /\ writes[1].ok
  /\ disk[writes[1].target] = writes[1].text

\* C9: when process_args returns CONTINUE, inputFiles is non-empty and holds
\* exactly one entry outside in-place and test mode, so both assertions of
\* main hold; a single-shot invocation whose scan ends with zero or several
\* positional arguments fails without reading any input.
C9_InputCount ==
  /\ arg_status = ARG_CONTINUE =>
       /\ config.inputFiles = remaining_args
       /\ Len(config.inputFiles) >= 1
       /\ ((~config.fmtInPlace /\ ~config.fmtTest) => Len(config.inputFiles) = 1)
  /\ pc \in { "loop", "read", "format", "formatted" } => Len(config.inputFiles) >= 1
  /\ pc \in { "single", "single_format", "single_formatted" } => Len(config.inputFiles) = 1
  /\ ( /\ arg_status # "none"
       /\ outlog = << >>
       /\ ~config.fmtInPlace
       /\ ~config.fmtTest
       /\ Len(remaining_args) # 1 )
     => /\ arg_status = ARG_FAILURE
        /\ NoIO
        /\ (pc = "done" => exitStatus = EXIT_FAILURE)

C9_Witness ==
  /\ pc = "done"
  /\ arg_status = ARG_FAILURE
  /\ ~config.fmtInPlace
  /\ ~config.fmtTest
  /\ Len(remaining_args) = 2
  /\ i >= Len(args)
  /\ errlog = << Diag("only one is allowed", EMPTY, 0) >>
  /\ NoIO
  /\ exitStatus = EXIT_FAILURE

\* tokens that neither return nor take a value
PlainTokens == { F_i, F_e, F_test, FILE_X, FILE_Y, STDIN_NAME }
IsName(t) == t \in { FILE_X, FILE_Y, STDIN_NAME }

\* the first `--` of argv is at p and is reached by the scan as a flag
DashDashAt(p) ==
  /\ argv[p] = F_dashdash
  /\ \A j \in 1 .. (p - 1) : argv[j] \in PlainTokens

HelpTokens == { F_h, F_help, F_v, F_version }

\* the scan is about to handle the token t as a flag
Scanning(t) == pc = "scan" /\ i < Len(args) /\ args[i + 1] = t

\* C11: when the scan reaches -h/--help or -v/--version as a flag,
\* process_args returns SUCCESS at once: no later token is examined, later
\* invalid tokens and a missing positional argument do not fail the run, the
\* exit status is 0 and nothing is read, formatted or written.
C11_HelpShortCircuits ==
  /\ [](arg_status = ARG_SUCCESS =>
          /\ i < Len(args)
          /\ args[i + 1] \in HelpTokens
          /\ outlog = << IF args[i + 1] \in { F_h, F_help } THEN "usage" ELSE "version" >>
          /\ NoIO
          /\ pc \in { "args_done", "caught", "done" }
          /\ ((pc = "done" /\ ~thrown) => exitStatus = EXIT_SUCCESS))
  /\ [][ (\E t \in HelpTokens : Scanning(t)) /\ pc' # "caught"
           => /\ arg_status' = ARG_SUCCESS
              /\ pc' = "args_done"
              /\ UNCHANGED << i, config, remaining_args, setterCalls, opts, errlog >> ]_vars
  /\ [][ arg_status = ARG_SUCCESS
           => UNCHANGED << i, arg_status, config, remaining_args, setterCalls, opts,
                           errlog, outlog >> \/ pc' = "done" ]_vars

C11_Witness ==
  /\ pc = "done"
  /\ ~thrown
  /\ exitStatus = EXIT_SUCCESS
  /\ arg_status = ARG_SUCCESS
  /\ remaining_args = << >>
  /\ i + 2 <= Len(args)
  /\ args[i + 2] = BOGUS
  /\ errlog = << >>
  /\ NoIO

BoolShort == { "e", "i", "h", "v" }

\* the raw token is a cluster of two boolean short flags
IsBoolCluster(t) ==
  Len(t) = 3 /\ t[1] = "-" /\ t[2] \in BoolShort /\ t[3] \in BoolShort

\* the raw vector with the cluster at p written as two tokens
SplitAt(raw, p) ==
  SubSeq(raw, 1, p - 1)
    \o << <<"-", raw[p][2]>>, <<"-", raw[p][3]>> >>
    \o SubSeq(raw, p + 1, Len(raw))

KnownFlags ==
  { F_h, F_help, F_v, F_version, F_e, F_exec, F_o, F_output_file, F_dashdash,
    F_i, F_in_place, F_test, F_n, F_indent, F_max_blank_lines, F_comment_style,
    F_string_style, F_pad_arrays, F_no_pad_arrays, F_pad_objects,
    F_no_pad_objects, F_pretty_field_names, F_no_pretty_field_names,
    F_sort_imports, F_no_sort_imports, F_debug_desugaring }

IsUnknownFlag(t) == Len(t) > 1 /\ t[1] = "-" /\ t \notin KnownFlags

\* C13: during flag scanning a token that begins with `-`, is longer than one
\* character and is not a recognized flag makes process_args return FAILURE at
\* that token, with a diagnostic naming it and exit status 1, and no later
\* token is examined; the token `-` is appended to the positional arguments.
C13_UnknownFlagFails ==
  /\ [][ (pc = "scan" /\ i < Len(args) /\ IsUnknownFlag(args[i + 1]) /\ pc' # "caught")
           => /\ arg_status' = ARG_FAILURE
              /\ pc' = "args_done"
              /\ errlog' = Append(errlog, Diag("unrecognized argument", args[i + 1], 0))
              /\ UNCHANGED << i, config, remaining_args, setterCalls, opts, outlog >> ]_vars
  /\ [][ (Scanning(STDIN_NAME) /\ pc' # "caught")
           => /\ remaining_args' = Append(remaining_args, STDIN_NAME)
              /\ arg_status' = "none"
              /\ pc' = "scan"
              /\ i' = i + 1
              /\ UNCHANGED << config, setterCalls, opts, errlog, outlog >> ]_vars
  /\ []((Len(errlog) > 0 /\ errlog[1].msg = "unrecognized argument") =>
          /\ arg_status = ARG_FAILURE
          /\ args[i + 1] = errlog[1].arg
          /\ IsUnknownFlag(errlog[1].arg)
          /\ NoIO
          /\ pc \in { "args_done", "caught", "done" }
          /\ (pc = "done" => exitStatus = EXIT_FAILURE))

C13_Witness ==
  /\ pc = "done"
  /\ ~thrown
  /\ exitStatus = EXIT_FAILURE
  /\ remaining_args = << STDIN_NAME >>
  /\ errlog = << Diag("unrecognized argument", BOGUS, 0) >>
  /\ i + 2 <= Len(args)
  /\ args[i + 2] \in HelpTokens
  /\ outlog = << >>

\* the token that follows the one being scanned, empty when there is none
ValueToken == IF i + 2 <= Len(args) THEN args[i + 2] ELSE EMPTY

\* the numbers written by the numeric tokens of the alphabets
IsNumTok(t) == t \in { NUM_3, NUM_0, NEG_1 }
NumOf(t) == CASE t = NUM_3 -> 3 [] t = NUM_0 -> 0 [] t = NEG_1 -> 0 - 1

\* a numeric option: a non-negative value goes to setter fn, anything else fails
NumberOptionStep(flags, field, fn) ==
  ((\E t \in flags : Scanning(t)) /\ pc' # "caught") =>
    IF IsNumTok(ValueToken) /\ NumOf(ValueToken) >= 0
      THEN /\ setterCalls' = Append(setterCalls, Call(fn, NumOf(ValueToken), "", FALSE))
           /\ opts' = [ opts EXCEPT ![field] = NumOf(ValueToken) ]
           /\ arg_status' = "none"
      ELSE /\ arg_status' = ARG_FAILURE
           /\ setterCalls' = setterCalls
           /\ opts' = opts

\* a style option: an allowed one-letter value goes to setter fn, anything else fails
StyleOptionStep(flag, field, fn, allowed) ==
  (Scanning(flag) /\ pc' # "caught") =>
    IF \E c \in allowed : ValueToken = << c >>
      THEN /\ setterCalls' = Append(setterCalls, Call(fn, 0, ValueToken[1], FALSE))
           /\ opts' = [ opts EXCEPT ![field] = ValueToken[1] ]
           /\ arg_status' = "none"
      ELSE /\ arg_status' = ARG_FAILURE
           /\ setterCalls' = setterCalls
           /\ opts' = opts

\* C14: an invalid option value is never forwarded to the engine: a negative
\* value of -n/--indent or --max-blank-lines and a value of --comment-style
\* (h, s, l) or --string-style (d, s, l) outside the allowed set return FAILURE
\* with no setter call; a valid value goes to exactly the matching setter with
\* exactly that value.
C14_OnlyValidValuesForwarded ==
  /\ [][NumberOptionStep({ F_n, F_indent }, "indent", "jsonnet_fmt_indent")]_vars
  /\ [][NumberOptionStep({ F_max_blank_lines }, "max_blank_lines",
                         "jsonnet_fmt_max_blank_lines")]_vars
  /\ [][StyleOptionStep(F_comment_style, "comment", "jsonnet_fmt_comment",
                        { "h", "s", "l" })]_vars
  /\ [][StyleOptionStep(F_string_style, "string", "jsonnet_fmt_string",
                        { "d", "s", "l" })]_vars
  /\ [](\A k \in 1 .. Len(setterCalls) :
          LET c == setterCalls[k]
          IN /\ c.fn \in { "jsonnet_fmt_indent", "jsonnet_fmt_max_blank_lines" } => c.num >= 0
             /\ c.fn = "jsonnet_fmt_comment" => c.ch \in { "h", "s", "l" }
             /\ c.fn = "jsonnet_fmt_string" => c.ch \in { "d", "s", "l" })

C14_Witness ==
  /\ pc = "done"
  /\ exitStatus = EXIT_FAILURE
  /\ arg_status = ARG_FAILURE
  /\ setterCalls = << Call("jsonnet_fmt_comment", 0, "h", FALSE) >>
  /\ errlog = << Diag("invalid --max-blank-lines value", EMPTY, 0 - 1) >>
  /\ opts.max_blank_lines = DefaultMaxBlankLines

\* single-shot mode with no -o
SingleShotStdout ==
  /\ arg_status = ARG_CONTINUE
  /\ ~config.fmtInPlace
  /\ ~config.fmtTest
  /\ config.outputFile = EMPTY

\* C15: in single-shot mode with no -o a successful run issues exactly one
\* write, to standard output, of the formatted result, and no write to a file,
\* so every file keeps its content; on a read or engine error nothing is
\* written.
C15_SingleShotWritesStdoutOnce ==
  SingleShotStdout =>
    /\ Len(writes) <= 1
    /\ \A w \in 1 .. Len(writes) :
         /\ writes[w].target = EMPTY
         /\ writes[w].ok
         /\ Len(fmts) = 1
         /\ ~fmts[1].error
         /\ writes[w].text = fmts[1].output
    /\ ((pc = "done" /\ exitStatus = EXIT_SUCCESS) => Len(writes) = 1)
    /\ ((Len(reads) > 0 /\ ~reads[1].ok) => writes = << >>)
    /\ ((Len(fmts) > 0 /\ fmts[1].error) => writes = << >>)
    /\ \A p \in Paths :
         disk[p] # UNKNOWN =>
           /\ p = config.inputFiles[1]
           /\ Len(reads) = 1
           /\ disk[p] = IF reads[1].ok THEN input ELSE MISSING

C15_Witness ==
  /\ pc = "done"
  /\ exitStatus = EXIT_SUCCESS
  /\ SingleShotStdout
  /\ ~config.filenameIsCode
  /\ fmts = << FmtRec(1, FILE_X, FILE_X, FILE_Y, FALSE) >>
  /\ writes = << WriteRec(1, EMPTY, FILE_Y, TRUE) >>
  /\ disk[FILE_X] = FILE_X

\* C16: the option state of the engine changes only during argument
\* processing: once process_args has returned no setter is called, so every
\* formatting call of a run is made under the configuration it left.
C16_OptionsFixedAfterArgs ==
  /\ [][ (setterCalls' # setterCalls \/ opts' # opts)
           => (pc = "scan" /\ arg_status = "none") ]_vars
  /\ [][ arg_status # "none" => (setterCalls' = setterCalls /\ opts' = opts) ]_vars
  /\ [][ fmts' # fmts
           => (arg_status = ARG_CONTINUE /\ setterCalls' = setterCalls /\ opts' = opts) ]_vars

C16_Witness ==
  /\ pc = "done"
  /\ arg_status = ARG_CONTINUE
  /\ Len(fmts) = 2
  /\ setterCalls = << Call("jsonnet_fmt_indent", 3, "", FALSE) >>
  /\ opts.indent = 3

\* C17: an internal fault raised during argument processing or orchestration
\* is caught by the handlers at the end of main, which write a diagnostic to
\* the error stream and return 1; the run never ends with 0 or 2 after it.
C17_FaultExitsWithFailure ==
  /\ [](thrown => pc \in { "caught", "done" })
  /\ []((thrown /\ pc = "done") =>
          /\ exitStatus = EXIT_FAILURE
          /\ Len(errlog) > 0
          /\ errlog[Len(errlog)] = Diag("internal error", EMPTY, 0))
  /\ [][ (~thrown /\ thrown') => (pc \in Running /\ pc' = "caught" /\ exitStatus' = -1) ]_vars
  /\ [][ pc = "caught"
           => /\ pc' = "done"
              /\ exitStatus' = EXIT_FAILURE
              /\ errlog' = Append(errlog, Diag("internal error", EMPTY, 0)) ]_vars

C17_Witness ==
  /\ pc = "done"
  /\ thrown
  /\ exitStatus = EXIT_FAILURE
  /\ Len(writes) = 1
  /\ writes[1].ok
  /\ Len(fmts) = 2
  /\ errlog = << Diag("internal error", EMPTY, 0) >>

\* C18: in in-place mode without --test every write issued while an input is
\* processed targets the path of that input; the value of -o is never written
\* to, nor is any other path or standard output.
C18_InPlaceWritesOnlyCurrentInput ==
  (arg_status = ARG_CONTINUE /\ config.fmtInPlace /\ ~config.fmtTest) =>
    /\ \A w \in 1 .. Len(writes) :
         /\ writes[w].target # EMPTY
         /\ writes[w].target = config.inputFiles[writes[w].pos]
         /\ (pc # "done" => writes[w].pos <= idx)
    /\ \A p \in Paths :
         (\A k \in 1 .. Len(config.inputFiles) : config.inputFiles[k] # p)
           => disk[p] = UNKNOWN

C18_Witness ==
  /\ pc = "done"
  /\ exitStatus = EXIT_SUCCESS
  /\ config.fmtInPlace
  /\ ~config.fmtTest
  /\ config.outputFile = FILE_Y
  /\ config.inputFiles = << FILE_X >>
  /\ writes = << WriteRec(1, FILE_X, FILE_Y, TRUE) >>
  /\ disk[FILE_Y] = UNKNOWN

\* the options that take a value
ValueFlags ==
  { F_o, F_output_file, F_n, F_indent, F_max_blank_lines, F_comment_style,
    F_string_style }

\* one scan step on a value-taking option that has a following token
ValueOptionStep ==
  ((\E t \in ValueFlags : Scanning(t)) /\ i + 2 <= Len(args) /\ pc' # "caught") =>
    /\ remaining_args' = remaining_args
    /\ outlog' = outlog
    /\ config'.fmtTest = config.fmtTest
    /\ config'.fmtInPlace = config.fmtInPlace
    /\ config'.filenameIsCode = config.filenameIsCode
    /\ arg_status' \in { "none", ARG_FAILURE }
    /\ (arg_status' = "none" => (pc' = "scan" /\ i' = i + 2))
    /\ IF args[i + 1] \in { F_o, F_output_file }
         THEN IF ValueToken = EMPTY
                THEN arg_status' = ARG_FAILURE /\ config' = config
                ELSE arg_status' = "none" /\ config'.outputFile = ValueToken
         ELSE config' = config

\* C19: a value-taking option consumes exactly the token that follows it in
\* the normalized argument list: that token is not classified as a flag or a
\* positional argument whatever it looks like, the scan resumes after it, and
\* -o with an empty value returns FAILURE, so -o never sets outputFile to the
\* empty string.
C19_ValueTokenConsumed ==
  /\ [][ValueOptionStep]_vars
  /\ [][ config'.outputFile # config.outputFile => config'.outputFile # EMPTY ]_vars
  /\ [](config.outputFile # EMPTY =>
          \E k \in 1 .. (Len(args) - 1) :
            args[k] \in { F_o, F_output_file } /\ args[k + 1] = config.outputFile)

C19_Witness ==
  /\ pc = "done"
  /\ exitStatus = EXIT_SUCCESS
  /\ arg_status = ARG_CONTINUE
  /\ args = << F_o, F_test, FILE_X >>
  /\ config.outputFile = F_test
  /\ ~config.fmtTest
  /\ config.inputFiles = << FILE_X >>
  /\ Len(writes) = 1
  /\ writes[1].target = F_test

\* the setter call each toggle token stands for
ToggleCall(t) ==
  CASE t = F_pad_arrays -> Call("jsonnet_fmt_pad_arrays", 0, "", TRUE)
    [] t = F_no_pad_arrays -> Call("jsonnet_fmt_pad_arrays", 0, "", FALSE)
    [] t = F_pad_objects -> Call("jsonnet_fmt_pad_objects", 0, "", TRUE)
    [] t = F_no_pad_objects -> Call("jsonnet_fmt_pad_objects", 0, "", FALSE)
    [] t = F_pretty_field_names -> Call("jsonnet_fmt_pretty_field_names", 0, "", TRUE)
    [] t = F_no_pretty_field_names -> Call("jsonnet_fmt_pretty_field_names", 0, "", FALSE)
    [] t = F_sort_imports -> Call("jsonnet_fmt_sort_imports", 0, "", TRUE)
    [] t = F_no_sort_imports -> Call("jsonnet_fmt_sort_imports", 0, "", FALSE)
    [] t = F_debug_desugaring -> Call("jsonnet_fmt_debug_desugaring", 0, "", TRUE)

ToggleFlags ==
  { F_pad_arrays, F_no_pad_arrays, F_pad_objects, F_no_pad_objects,
    F_pretty_field_names, F_no_pretty_field_names, F_sort_imports,
    F_no_sort_imports, F_debug_desugaring }

CallsOf(fn) == { k \in 1 .. Len(setterCalls) : setterCalls[k].fn = fn }
LastCallOf(fn) == setterCalls[CHOOSE k \in CallsOf(fn) : \A j \in CallsOf(fn) : j <= k]

\* the option holds its default, or what the last call of its setter gave
LastWins(field, fn, part) ==
  opts[field] = IF CallsOf(fn) = { } THEN InitOpts[field] ELSE LastCallOf(fn)[part]

\* C20: engine setters are called in the left-to-right order of their tokens,
\* so for a repeated option or both forms of a toggle the option state after
\* argument processing is the one set by the last such token; a repeated -o
\* leaves outputFile equal to its last value.
C20_LastTokenWins ==
  /\ [][ ((\E t \in ToggleFlags : Scanning(t)) /\ pc' # "caught")
           => setterCalls' = Append(setterCalls, ToggleCall(args[i + 1])) ]_vars
  /\ [][ setterCalls' # setterCalls
           => (Len(setterCalls') = Len(setterCalls) + 1
               /\ SubSeq(setterCalls', 1, Len(setterCalls)) = setterCalls) ]_vars
  /\ [](/\ LastWins("indent", "jsonnet_fmt_indent", "num")
        /\ LastWins("max_blank_lines", "jsonnet_fmt_max_blank_lines", "num")
        /\ LastWins("comment", "jsonnet_fmt_comment", "ch")
        /\ LastWins("string", "jsonnet_fmt_string", "ch")
        /\ LastWins("pad_arrays", "jsonnet_fmt_pad_arrays", "flag")
        /\ LastWins("pad_objects", "jsonnet_fmt_pad_objects", "flag")
        /\ LastWins("pretty_field_names", "jsonnet_fmt_pretty_field_names", "flag")
        /\ LastWins("sort_imports", "jsonnet_fmt_sort_imports", "flag")
        /\ LastWins("debug_desugaring", "jsonnet_fmt_debug_desugaring", "flag"))
  /\ [][ ((Scanning(F_o) \/ Scanning(F_output_file)) /\ ValueToken # EMPTY /\ pc' # "caught")
           => config'.outputFile = ValueToken ]_vars
  /\ [][ config'.outputFile # config.outputFile
           => (Scanning(F_o) \/ Scanning(F_output_file)) ]_vars
  /\ []((arg_status = ARG_CONTINUE /\ argv = << F_o, FILE_X, F_o, FILE_Y, FILE_X >>)
          => config.outputFile = FILE_Y)
  /\ []((arg_status = ARG_CONTINUE /\ argv = << F_n, NUM_3, F_n, NUM_0, FILE_X >>)
          => opts.indent = 0)

C20_Witness ==
  /\ pc = "done"
  /\ arg_status = ARG_CONTINUE
  /\ setterCalls = << Call("jsonnet_fmt_pad_arrays", 0, "", TRUE),
                      Call("jsonnet_fmt_pad_arrays", 0, "", FALSE) >>
  /\ opts.pad_arrays = FALSE
  /\ Len(fmts) = 1

====
